---- MODULE Spec2Model ----
(***************************************************************************)
(* Two-state hidden Markov model of hmm.h / hmm.cxx: the HMM object (its   *)
(* members A, pi, B), the scaled forward evaluation HMM::evaluate, the     *)
(* forward-backward posterior decoding HMM::posterior_decode and the two   *)
(* wrappers reconocimiento and evaluacion.                                 *)
(*                                                                         *)
(* A double is modelled as an exact value <<n, d>>:                        *)
(*   d > 0, n # 0   the rational n/d in lowest terms                       *)
(*   <<0, 1>>, <<0, -1>>   the zeros +0.0 and -0.0                         *)
(*   <<1, 0>>, <<-1, 0>>   +infinity and -infinity                         *)
(*   <<0, 0>>              NaN                                             *)
(* with the IEEE-754 rules for the special values.  Rounding, overflow and *)
(* underflow of finite values are not modelled: finite arithmetic is       *)
(* exact.  C++ indexes from 0, the sequences below from 1: position t of   *)
(* the code is element t+1 here.                                           *)
(***************************************************************************)
EXTENDS Integers, Sequences, FiniteSets, TLC

VARIABLES
    A, pi, B,     \* the members of the HMM object
    built,        \* the object as its constructor left it
    used,         \* TRUE once a call on the object has returned
    pc,           \* "idle" between calls, "returned" when a call has returned
    op,           \* the call that returned
    seq,          \* its argument seq
    threshold,    \* its argument threshold
    res           \* what it returned, with its local tables

vars == <<A, pi, B, built, used, pc, op, seq, threshold, res>>

\* The object the calls run on.
this == [A |-> A, pi |-> pi, B |-> B]

\* Longest sequence passed to a call.
MaxLen == 2

----------------------------------------------------------------------------
\* double arithmetic

RECURSIVE GCD(_, _)
GCD(a, b) == IF b = 0 THEN a ELSE GCD(b, a % b)

Abs(n) == IF n < 0 THEN -n ELSE n

PosZero == <<0, 1>>
NegZero == <<0, -1>>
One == <<1, 1>>
PosInf == <<1, 0>>
NegInf == <<-1, 0>>
NaN == <<0, 0>>

\* The double n/d, for d > 0.  (The operations below cancel common factors
\* before they multiply, which keeps the integers small.)
Q(n, d) == IF n = 0 THEN PosZero
           ELSE LET g == GCD(Abs(n), d) IN <<n \div g, d \div g>>

IsNaN(x) == x = NaN
IsInf(x) == x[2] = 0 /\ x[1] # 0
IsZero(x) == x[1] = 0 /\ x[2] # 0
IsFinite(x) == x[2] # 0

\* The sign bit of a double that is not NaN, as +1 or -1.
Sgn(x) == IF IsZero(x) THEN x[2] ELSE IF x[1] < 0 THEN -1 ELSE 1

SignedZero(s) == <<0, s>>
SignedInf(s) == <<s, 0>>

\* x * y
Mul(x, y) ==
    IF IsNaN(x) \/ IsNaN(y) THEN NaN
    ELSE IF (IsInf(x) /\ IsZero(y)) \/ (IsZero(x) /\ IsInf(y)) THEN NaN
    ELSE IF IsInf(x) \/ IsInf(y) THEN SignedInf(Sgn(x) * Sgn(y))
    ELSE IF IsZero(x) \/ IsZero(y) THEN SignedZero(Sgn(x) * Sgn(y))
    ELSE LET g == GCD(Abs(x[1]), y[2])
             h == GCD(Abs(y[1]), x[2])
         IN Q((x[1] \div g) * (y[1] \div h), (x[2] \div h) * (y[2] \div g))

\* x + y
Add(x, y) ==
    IF IsNaN(x) \/ IsNaN(y) THEN NaN
    ELSE IF IsInf(x) /\ IsInf(y) THEN (IF x = y THEN x ELSE NaN)
    ELSE IF IsInf(x) THEN x
    ELSE IF IsInf(y) THEN y
    ELSE IF IsZero(x) /\ IsZero(y) THEN (IF x = y THEN x ELSE PosZero)
    ELSE IF IsZero(x) THEN y
    ELSE IF IsZero(y) THEN x
    ELSE LET g == GCD(x[2], y[2])
         IN Q(x[1] * (y[2] \div g) + y[1] * (x[2] \div g),
              (x[2] \div g) * y[2])

\* x / y
Div(x, y) ==
    IF IsNaN(x) \/ IsNaN(y) THEN NaN
    ELSE IF (IsInf(x) /\ IsInf(y)) \/ (IsZero(x) /\ IsZero(y)) THEN NaN
    ELSE IF IsInf(x) \/ IsZero(y) THEN SignedInf(Sgn(x) * Sgn(y))
    ELSE IF IsInf(y) \/ IsZero(x) THEN SignedZero(Sgn(x) * Sgn(y))
    ELSE LET g == GCD(Abs(x[1]), Abs(y[1]))
             h == GCD(x[2], y[2])
         IN Q(Sgn(y) * (x[1] \div g) * (y[2] \div h),
              (x[2] \div h) * (Abs(y[1]) \div g))

\* x == y
Eq(x, y) ==
    IF IsNaN(x) \/ IsNaN(y) THEN FALSE
    ELSE IF IsZero(x) /\ IsZero(y) THEN TRUE
    ELSE x = y

\* x >= y
Geq(x, y) ==
    IF IsNaN(x) \/ IsNaN(y) THEN FALSE
    ELSE IF IsInf(x) THEN (x = PosInf \/ y = NegInf)
    ELSE IF IsInf(y) THEN y = NegInf
    ELSE x[1] * Abs(y[2]) >= y[1] * Abs(x[2])

\* std::log(x).  The logarithm of a positive finite x is kept as the term
\* <<"ln", x>>; the other arguments give the IEEE special results.
Log(x) ==
    IF IsNaN(x) THEN <<"nan">>
    ELSE IF IsZero(x) THEN <<"-inf">>
    ELSE IF Sgn(x) < 0 THEN <<"nan">>
    ELSE IF IsInf(x) THEN <<"+inf">>
    ELSE <<"ln", x>>

\* logp + l for two logarithm values: ln(x) + ln(y) = ln(x * y).
LogAdd(lp, l) ==
    IF lp[1] = "nan" \/ l[1] = "nan" THEN <<"nan">>
    ELSE IF lp[1] = "ln" /\ l[1] = "ln" THEN <<"ln", Mul(lp[2], l[2])>>
    ELSE IF lp[1] = "ln" THEN l
    ELSE IF l[1] = "ln" THEN lp
    ELSE IF lp = l THEN lp
    ELSE <<"nan">>

\* -INFINITY as a return value of evaluate, and the initial logp = 0.0.
MinusInfinity == <<"-inf">>
LogZero == <<"ln", One>>

----------------------------------------------------------------------------
\* The HMM object

\* HMM::HMM(): the preset of Figura 2, states L (0) and H (1).
HMM_default ==
    [A |-> << <<Q(3, 5), Q(2, 5)>>, <<Q(1, 2), Q(1, 2)>> >>,
     pi |-> <<Q(1, 2), Q(1, 2)>>,
     B |-> << <<Q(3, 10), Q(1, 5), Q(1, 5), Q(3, 10)>>,
              <<Q(1, 5), Q(3, 10), Q(3, 10), Q(1, 5)>> >>]

\* HMM::HMM(A_, pi_, B_): the three arguments are stored as given.
HMM_params(A_, pi_, B_) == [A |-> A_, pi |-> pi_, B |-> B_]

\* A faulty sym2idx: the default case returns the last index.
sym2idx_default_last(c) ==
    CASE c = "A" -> 0
      [] c = "C" -> 1
      [] c = "G" -> 2
      [] c = "T" -> 3
      [] OTHER -> 3

\* HMM::sym2idx
sym2idx(c) ==
    CASE c = "A" -> 0
      [] c = "C" -> 1
      [] c = "G" -> 2
      [] c = "T" -> 3
      [] OTHER -> 0

\* A faulty forward step: A[j][i] in place of A[i][j].
ForwardStep_transposed(self, prev, obs) ==
    [j \in 1..2 |->
        Mul(Add(Add(PosZero, Mul(prev[1], self.A[j][1])),
                Mul(prev[2], self.A[j][2])),
            self.B[j][obs + 1])]

\* The body of the loops over j at t >= 1 (the same in evaluate and in
\* posterior_decode): cur[j] = (sum_i alpha[t-1][i] * A[i][j]) * B[j][obs],
\* with sum starting at 0.0.
ForwardStep(self, prev, obs) ==
    [j \in 1..2 |->
        Mul(Add(Add(PosZero, Mul(prev[1], self.A[1][j])),
                Mul(prev[2], self.A[2][j])),
            self.B[j][obs + 1])]

\* A faulty initialisation: the initial distribution pi is left out.
ForwardInit_without_pi(self, obs) ==
    [i \in 1..2 |-> self.B[i][obs + 1]]

\* The t = 0 products a0[i] = pi[i] * B[i][sym2idx(seq[0])].
ForwardInit(self, obs) ==
    [i \in 1..2 |-> Mul(self.pi[i], self.B[i][obs + 1])]

\* A faulty normalisation: only cur[0] is divided.
Normalize_first_only(cur, st) == <<Div(cur[1], st), cur[2]>>

\* cur[0] /= st; cur[1] /= st;
Normalize(cur, st) == <<Div(cur[1], st), Div(cur[2], st)>>

\* logp = 0.0; for (double sc : scales) logp += std::log(sc);
RECURSIVE SumLogs(_, _, _)
SumLogs(scales, k, logp) ==
    IF k > Len(scales) THEN logp
    ELSE SumLogs(scales, k + 1, LogAdd(logp, Log(scales[k])))

\* HMM::evaluate, the loop over t = 1 .. n-1 and the final sum of logs.
\* t is the code's t plus one.  sums records every s0 / st the call
\* computed, alpha and scales are the vectors it pushed, logged the scales
\* whose logarithm it took.
RECURSIVE evaluate_loop(_, _, _, _, _, _)
evaluate_loop(self, sq, t, alpha, scales, sums) ==
    IF t > Len(sq)
    THEN [ret |-> SumLogs(scales, 1, LogZero), alpha |-> alpha,
          scales |-> scales, sums |-> sums, logged |-> scales]
    ELSE LET cur == ForwardStep(self, alpha[t - 1], sym2idx(sq[t]))
             st == Add(cur[1], cur[2])
         IN IF Eq(st, PosZero)
            THEN [ret |-> MinusInfinity, alpha |-> alpha, scales |-> scales,
                  sums |-> Append(sums, st), logged |-> <<>>]
            ELSE evaluate_loop(self, sq, t + 1,
                     Append(alpha, Normalize(cur, st)),
                     Append(scales, st), Append(sums, st))

\* HMM::evaluate
evaluate(self, sq) ==
    IF Len(sq) = 0
    THEN [ret |-> MinusInfinity, alpha |-> <<>>, scales |-> <<>>,
          sums |-> <<>>, logged |-> <<>>]
    ELSE LET a0 == ForwardInit(self, sym2idx(sq[1]))
             s0 == Add(a0[1], a0[2])
         IN IF Eq(s0, PosZero)
            THEN [ret |-> MinusInfinity, alpha |-> <<>>, scales |-> <<>>,
                  sums |-> <<s0>>, logged |-> <<>>]
            ELSE evaluate_loop(self, sq, 2,
                     <<Normalize(a0, s0)>>, <<s0>>, <<s0>>)

\* HMM::posterior_decode, the forward loop over t = 1 .. n-1: every cur is
\* divided by its sum st, whatever st is.
RECURSIVE decode_forward(_, _, _, _, _)
decode_forward(self, sq, t, alpha, scales) ==
    IF t > Len(sq) THEN [alpha |-> alpha, scales |-> scales]
    ELSE LET cur == ForwardStep(self, alpha[t - 1], sym2idx(sq[t]))
             st == Add(cur[1], cur[2])
         IN decode_forward(self, sq, t + 1,
                Append(alpha, Normalize(cur, st)),
                Append(scales, st))

\* HMM::posterior_decode, one step of the backward loop: beta[t] from
\* beta[t+1] (next), the symbol at t+1 and scales[t+1] (scale).
BackwardStep(self, next, obs, scale) ==
    [i \in 1..2 |->
        Div(Add(Add(PosZero,
                    Mul(Mul(self.A[i][1], self.B[1][obs + 1]), next[1])),
                Mul(Mul(self.A[i][2], self.B[2][obs + 1]), next[2])),
            scale)]

\* HMM::posterior_decode, the backward loop over t = n-2 .. 0.  beta holds
\* beta[t+1 ..] of the code; t is the code's t plus one.
RECURSIVE decode_backward(_, _, _, _, _)
decode_backward(self, sq, scales, t, beta) ==
    IF t < 1 THEN beta
    ELSE decode_backward(self, sq, scales, t - 1,
             <<BackwardStep(self, beta[1], sym2idx(sq[t + 1]), scales[t + 1])>>
                 \o beta)

\* HMM::posterior_decode, the posterior p1 of one position.
Posterior(a, b) ==
    LET g0 == Mul(a[1], b[1])
        g1 == Mul(a[2], b[2])
        s == Add(g0, g1)
    IN IF Eq(s, PosZero) THEN PosZero ELSE Div(g1, s)

\* A faulty comparison: p1 > threshold.
Label_strict(p1, th) == IF Geq(p1, th) /\ ~Eq(p1, th) THEN 1 ELSE 0

\* out[t] = (p1 >= threshold) ? 1 : 0
Label(p1, th) == IF Geq(p1, th) THEN 1 ELSE 0

\* A faulty output loop: the last position is left out.
decode_output_short(n, p1, th) ==
    [t \in 1..(n - 1) |-> IF Geq(p1[t], th) THEN 1 ELSE 0]

\* out.resize(n) and the loop that fills out[0 .. n-1].
decode_output(n, p1, th) == [t \in 1..n |-> Label(p1[t], th)]

\* HMM::posterior_decode.  out is the returned vector; alpha, scales, beta
\* and p1 are the call's local tables when it returns.
posterior_decode(self, sq, th) ==
    IF Len(sq) = 0
    THEN [out |-> <<>>, alpha |-> <<>>, scales |-> <<>>, beta |-> <<>>,
          p1 |-> <<>>]
    ELSE LET n == Len(sq)
             a0 == ForwardInit(self, sym2idx(sq[1]))
             s0 == Add(a0[1], a0[2])
             fw == decode_forward(self, sq, 2,
                       <<Normalize(a0, s0)>>, <<s0>>)
             beta == decode_backward(self, sq, fw.scales, n - 1, << <<One, One>> >>)
             p1 == [t \in 1..n |-> Posterior(fw.alpha[t], beta[t])]
         IN [out |-> decode_output(n, p1, th),
             alpha |-> fw.alpha, scales |-> fw.scales, beta |-> beta,
             p1 |-> p1]

\* HMM::reconocimiento
reconocimiento(self, sq) ==
    LET posterior == posterior_decode(self, sq, Q(1, 2))
    IN [result |-> [k \in 1..Len(posterior.out) |->
                       IF posterior.out[k] = 1 THEN "H" ELSE "L"],
        posterior |-> posterior]

\* HMM::evaluacion
evaluacion(self, sq) == evaluate(self, sq)

----------------------------------------------------------------------------
\* Inputs

\* The four symbols of the alphabet and one symbol outside it.
Symbols == {"A", "C", "G", "T", "N"}

Seqs == UNION {[1..k -> Symbols] : k \in 0..MaxLen}

Thresholds == {PosZero, Q(1, 2), One}

\* Arguments of HMM::HMM(A_, pi_, B_).  Besides stochastic tables there are
\* tables with a negative entry, tables whose rows do not sum to 1 and
\* tables of a larger shape than 2x2 and 2 (a smaller shape makes the calls
\* read outside the vectors and is left out).
PiInputs ==
    { <<Q(1, 2), Q(1, 2)>>,
      <<One, PosZero>>,
      <<Q(-1, 2), Q(1, 2)>>,
      <<Q(1, 2), Q(1, 2), PosZero>> }

AInputs ==
    { << <<Q(1, 2), Q(1, 2)>>, <<Q(1, 2), Q(1, 2)>> >>,
      << <<One, PosZero>>, <<Q(1, 4), Q(3, 4)>> >>,
      << <<Q(3, 4), Q(1, 4), PosZero>>, <<PosZero, One, PosZero>>,
         <<PosZero, PosZero, One>> >> }

BInputs ==
    { << <<Q(1, 4), Q(1, 4), Q(1, 4), Q(1, 4)>>,
         <<Q(1, 4), Q(1, 4), Q(1, 4), Q(1, 4)>> >>,
      << <<Q(1, 2), PosZero, Q(1, 2), PosZero>>,
         <<PosZero, Q(1, 2), PosZero, Q(1, 2)>> >>,
      << <<Q(1, 2), Q(1, 4), Q(1, 8), Q(1, 8)>>,
         <<Q(1, 8), Q(1, 8), Q(1, 4), Q(1, 2)>> >>,
      << <<Q(1, 2), Q(1, 2), Q(-1, 2), Q(1, 2)>>,
         <<Q(1, 4), Q(1, 4), Q(1, 4), Q(1, 4)>> >> }

----------------------------------------------------------------------------
\* The object and its callers


NoResult == [none |-> TRUE]

\* The state after either constructor.  built keeps the constructed object.
Init ==
    /\ \E m \in {HMM_default}
              \cup {HMM_params(A_, pi_, B_) :
                      A_ \in AInputs, pi_ \in PiInputs, B_ \in BInputs} :
          /\ A = m.A
          /\ pi = m.pi
          /\ B = m.B
          /\ built = m
    /\ used = FALSE
    /\ pc = "idle"
    /\ op = "none"
    /\ seq = <<>>
    /\ threshold = PosZero
    /\ res = NoResult

\* A faulty evaluate that normalises in place: it leaves the normalised
\* alpha[0] in the member pi.
Evaluate_in_place ==
    /\ pc = "idle"
    /\ \E sq \in Seqs :
          LET r == evaluate(this, sq)
          IN /\ seq' = sq
             /\ res' = r
             /\ pi' = IF Len(r.alpha) > 0 THEN r.alpha[1] ELSE pi
    /\ op' = "evaluate"
    /\ pc' = "returned"
    /\ UNCHANGED <<A, B, built, used, threshold>>

\* A caller runs evaluate(seq).
Evaluate ==
    /\ pc = "idle"
    /\ \E sq \in Seqs :
          /\ seq' = sq
          /\ res' = evaluate(this, sq)
    /\ op' = "evaluate"
    /\ pc' = "returned"
    /\ UNCHANGED <<A, pi, B, built, used, threshold>>

\* A caller runs evaluacion(seq).
Evaluacion ==
    /\ pc = "idle"
    /\ \E sq \in Seqs :
          /\ seq' = sq
          /\ res' = evaluacion(this, sq)
    /\ op' = "evaluacion"
    /\ pc' = "returned"
    /\ UNCHANGED <<A, pi, B, built, used, threshold>>

\* A caller runs posterior_decode(seq, threshold).
PosteriorDecode ==
    /\ pc = "idle"
    /\ \E sq \in Seqs, th \in Thresholds :
          /\ seq' = sq
          /\ threshold' = th
          /\ res' = posterior_decode(this, sq, th)
    /\ op' = "posterior_decode"
    /\ pc' = "returned"
    /\ UNCHANGED <<A, pi, B, built, used>>

\* A caller runs reconocimiento(seq).
Reconocimiento ==
    /\ pc = "idle"
    /\ \E sq \in Seqs :
          /\ seq' = sq
          /\ res' = reconocimiento(this, sq)
    /\ op' = "reconocimiento"
    /\ pc' = "returned"
    /\ UNCHANGED <<A, pi, B, built, used, threshold>>

\* The caller takes the result; the call's local tables are gone.
Return ==
    /\ pc = "returned"
    /\ pc' = "idle"
    /\ op' = "none"
    /\ seq' = <<>>
    /\ threshold' = PosZero
    /\ res' = NoResult
    /\ used' = TRUE
    /\ UNCHANGED <<A, pi, B, built>>

Next ==
    \/ Evaluate
    \/ Evaluacion
    \/ PosteriorDecode
    \/ Reconocimiento
    \/ Return

Spec == Init /\ [][Next]_vars

----------------------------------------------------------------------------
\* Reference notions the properties are stated with

\* The entries of a table, whatever its shape.
Entries(m) ==
    {m.pi[i] : i \in 1..Len(m.pi)}
      \cup UNION {{m.A[i][j] : j \in 1..Len(m.A[i])} : i \in 1..Len(m.A)}
      \cup UNION {{m.B[i][j] : j \in 1..Len(m.B[i])} : i \in 1..Len(m.B)}

NonNegative(m) == \A x \in Entries(m) : Geq(x, PosZero)

\* transition is 2x2, initial has length 2, emission is 2x4.
RightShape(m) ==
    /\ Len(m.A) = 2 /\ \A i \in 1..2 : Len(m.A[i]) = 2
    /\ Len(m.pi) = 2
    /\ Len(m.B) = 2 /\ \A i \in 1..2 : Len(m.B[i]) = 4

\* What the validation of the constructor arguments is to let through.
WellFormed(m) == RightShape(m) /\ NonNegative(m)

\* A valid model: well formed, and every row sums to 1.
Stochastic(m) ==
    /\ WellFormed(m)
    /\ Add(m.pi[1], m.pi[2]) = One
    /\ \A i \in 1..2 : Add(m.A[i][1], m.A[i][2]) = One
    /\ \A i \in 1..2 :
          Add(Add(m.B[i][1], m.B[i][2]), Add(m.B[i][3], m.B[i][4])) = One

\* The uniform model of scenario C.
Uniform(m) ==
    /\ m.A = << <<Q(1, 2), Q(1, 2)>>, <<Q(1, 2), Q(1, 2)>> >>
    /\ m.pi = <<Q(1, 2), Q(1, 2)>>
    /\ m.B = << <<Q(1, 4), Q(1, 4), Q(1, 4), Q(1, 4)>>,
                <<Q(1, 4), Q(1, 4), Q(1, 4), Q(1, 4)>> >>

\* The index of a symbol of the alphabet.
AlphabetIndex == [c \in {"A", "C", "G", "T"} |->
                    IF c = "A" THEN 0 ELSE IF c = "C" THEN 1
                    ELSE IF c = "G" THEN 2 ELSE 3]

\* sq with every symbol outside the alphabet replaced by 'A'.
Canonical(sq) ==
    [k \in 1..Len(sq) |-> IF sq[k] \in DOMAIN AlphabetIndex THEN sq[k] ELSE "A"]

\* The naive (unscaled) forward recurrence: the joint probability of the
\* first t symbols of sq and state i at position t-1 (0-based).
RECURSIVE NaiveForward(_, _, _)
NaiveForward(m, sq, t) ==
    LET o == AlphabetIndex[Canonical(sq)[t]] + 1
    IN IF t = 1 THEN [i \in 1..2 |-> Mul(m.pi[i], m.B[i][o])]
       ELSE LET f == NaiveForward(m, sq, t - 1)
            IN [j \in 1..2 |->
                   Mul(Add(Mul(f[1], m.A[1][j]), Mul(f[2], m.A[2][j])),
                       m.B[j][o])]

\* The naive forward probability of the first t symbols of sq.
NaiveTotal(m, sq, t) ==
    LET f == NaiveForward(m, sq, t) IN Add(f[1], f[2])

\* The positions (1-based) at which the forward mass is zero.
ZeroMass(m, sq) == {t \in 1..Len(sq) : Eq(NaiveTotal(m, sq, t), PosZero)}

Min(S) == CHOOSE x \in S : \A y \in S : x <= y

RECURSIVE Product(_, _)
Product(s, k) == IF k = 0 THEN One ELSE Mul(Product(s, k - 1), s[k])

RECURSIVE Power(_, _)
Power(x, n) == IF n = 0 THEN One ELSE Mul(Power(x, n - 1), x)

EvaluateReturned == pc = "returned" /\ op \in {"evaluate", "evaluacion"}
DecodeReturned == pc = "returned" /\ op = "posterior_decode"
ReconocimientoReturned == pc = "returned" /\ op = "reconocimiento"

----------------------------------------------------------------------------
\* C1: for a model with non-negative entries and a non-empty sequence on
\* which evaluate runs to the end, the product of the scale factors is the
\* naive unscaled forward probability of the sequence, and the value
\* returned is its natural logarithm.
C1_ScaledForwardIdentity ==
    (EvaluateReturned /\ Len(seq) > 0 /\ NonNegative(this)
        /\ Len(res.logged) = Len(seq))
    => /\ Len(res.scales) = Len(seq)
       /\ Product(res.scales, Len(seq)) = NaiveTotal(this, seq, Len(seq))
       /\ res.ret = <<"ln", NaiveTotal(this, seq, Len(seq))>>

\* C1 witness: evaluate ran to the end of a sequence of two or more symbols
\* with two different scale factors.
C1_Witness ==
    /\ EvaluateReturned /\ Len(seq) >= 2 /\ NonNegative(this)
    /\ Len(res.logged) = Len(seq)
    /\ res.scales[1] # res.scales[2]
    /\ res.ret # LogZero

\* C2: evaluate returns negative infinity exactly when the sequence is
\* empty or the forward mass is zero at some position; at the first such
\* position it returns without normalising by that scale, without
\* processing a later position and without taking a logarithm; in every
\* other case it returns a finite value.
C2_NegInfExactlyOnZeroMass ==
    EvaluateReturned
    => LET z == ZeroMass(this, seq)
       IN /\ (res.ret = MinusInfinity) <=> (Len(seq) = 0 \/ z # {})
          /\ z # {} => /\ Len(res.sums) = Min(z)
                       /\ Len(res.alpha) = Min(z) - 1
                       /\ Len(res.scales) = Min(z) - 1
                       /\ res.logged = <<>>
          /\ (Len(seq) > 0 /\ z = {}) => res.ret[1] = "ln"

\* C7 as stated: under the uniform model every scale factor of evaluate is
\* 0.5 whatever the symbol, and evaluate returns n * ln(0.5).  (Read for
\* n > 0: on the empty sequence evaluate returns negative infinity.)
C7_UniformScaleHalf ==
    (EvaluateReturned /\ Uniform(this) /\ Len(seq) > 0)
    => /\ Len(res.scales) = Len(seq)
       /\ \A t \in 1..Len(res.scales) : res.scales[t] = Q(1, 2)
       /\ res.ret = <<"ln", Power(Q(1, 2), Len(seq))>>

\* C7 as amended: under the uniform model, for a non-empty sequence, every
\* scale factor of evaluate is 0.25 whatever the symbol, and evaluate
\* returns the sum of n terms ln(0.25), the logarithm of 0.25^n.
C7_UniformScaleQuarter ==
    (EvaluateReturned /\ Uniform(this) /\ Len(seq) > 0)
    => /\ Len(res.scales) = Len(seq)
       /\ \A t \in 1..Len(res.scales) : res.scales[t] = Q(1, 4)
       /\ res.logged = res.scales
       /\ res.ret = <<"ln", Power(Q(1, 4), Len(seq))>>

\* C7 witness: evaluate returned on the uniform model for a sequence of two
\* or more symbols, one of them outside the alphabet, not all the same.
C7_Witness ==
    /\ EvaluateReturned /\ Uniform(this) /\ Len(seq) >= 2
    /\ seq[1] # seq[2] /\ \E k \in 1..Len(seq) : seq[k] = "N"

\* C8: for a valid model and a non-empty sequence every sum evaluate
\* computes lies in [0, 1], every normalised alpha sums to 1, and evaluate
\* returns negative infinity or the logarithm of a value in (0, 1].
C8_LogProbabilityNonPositive ==
    (EvaluateReturned /\ Stochastic(this) /\ Len(seq) > 0)
    => /\ \A t \in 1..Len(res.sums) :
             Geq(res.sums[t], PosZero) /\ Geq(One, res.sums[t])
       /\ \A t \in 1..Len(res.alpha) :
             Add(res.alpha[t][1], res.alpha[t][2]) = One
       /\ \/ res.ret = MinusInfinity
          \/ /\ res.ret[1] = "ln"
             /\ Geq(res.ret[2], PosZero) /\ Geq(One, res.ret[2])
             /\ res.ret[2] = Product(res.scales, Len(res.scales))

\* C8 witness: evaluate ran to the end on a valid model that is not
\* uniform, with a scale factor strictly between 0 and 1 at a later
\* position and an alpha that is not (1/2, 1/2).
C8_Witness ==
    /\ EvaluateReturned /\ Stochastic(this) /\ ~Uniform(this)
    /\ Len(seq) >= 2 /\ res.ret[1] = "ln"
    /\ res.scales[2] # One
    /\ res.alpha[2][1] # res.alpha[2][2]

----------------------------------------------------------------------------
\* The tables of the posterior_decode run behind the returned call.
Decoded == IF op = "reconocimiento" THEN res.posterior ELSE res

\* The threshold of that run: reconocimiento passes 0.5.
DecodeThreshold == IF op = "reconocimiento" THEN Q(1, 2) ELSE threshold

AnyDecodeReturned == DecodeReturned \/ ReconocimientoReturned

\* C3: posterior_decode absorbs a zero forward mass: when the mass is zero
\* at some position (stated here for valid models, where nothing but the
\* zero mass is out of the ordinary), no alpha or beta is the result of a division by a
\* zero scale factor (every entry of the tables is finite), and from the
\* first such position on the posterior is the state-0 default p1 = 0 of
\* the combination step.
C3_DecodeAbsorbsZeroMass ==
    (AnyDecodeReturned /\ Stochastic(this) /\ ZeroMass(this, seq) # {})
    => LET d == Decoded
       IN /\ \A t \in 1..Len(d.scales) : ~Eq(d.scales[t], PosZero)
          /\ \A t \in 1..Len(d.alpha) : \A i \in 1..2 : IsFinite(d.alpha[t][i])
          /\ \A t \in 1..Len(d.beta) : \A i \in 1..2 : IsFinite(d.beta[t][i])
          /\ \A t \in Min(ZeroMass(this, seq))..Len(seq) :
                /\ Eq(d.p1[t], PosZero)
                /\ d.out[t] = (IF Geq(PosZero, DecodeThreshold) THEN 1 ELSE 0)

\* C4: the constructor lets only well-formed tables through (2x2, 2 and
\* 2x4, no negative entry), so no call runs on an object built from
\* malformed tables.
C4_NoCallOnMalformedModel ==
    pc = "returned" => WellFormed(built)

\* C5: posterior_decode returns exactly one label per position, each 0 or
\* 1 (none for the empty sequence), and reconocimiento a string of as many
\* characters as the sequence, each 'L' or 'H'.
C5_OneLabelPerPosition ==
    /\ DecodeReturned
       => /\ Len(res.out) = Len(seq)
          /\ \A t \in 1..Len(res.out) : res.out[t] \in {0, 1}
    /\ ReconocimientoReturned
       => /\ Len(res.result) = Len(seq)
          /\ \A t \in 1..Len(res.result) : res.result[t] \in {"L", "H"}

\* C5 witness: posterior_decode returned both labels for a sequence of two
\* or more symbols.
C5_Witness ==
    /\ DecodeReturned /\ Len(seq) >= 2
    /\ \E t, u \in 1..Len(seq) : res.out[t] = 0 /\ res.out[u] = 1

\* C6: a symbol outside the alphabet is read as 'A': every call returns
\* what it returns on the sequence with each such symbol replaced by 'A'.
C6_UnknownSymbolIsA ==
    /\ pc = "returned" /\ op = "evaluate"
       => res = evaluate(this, Canonical(seq))
    /\ pc = "returned" /\ op = "evaluacion"
       => res = evaluacion(this, Canonical(seq))
    /\ DecodeReturned
       => res = posterior_decode(this, Canonical(seq), threshold)
    /\ ReconocimientoReturned
       => res = reconocimiento(this, Canonical(seq))

\* C6 witness: posterior_decode returned both labels for a sequence that
\* holds a symbol outside the alphabet and a symbol other than 'A'.
C6_Witness ==
    /\ DecodeReturned
    /\ \E k, l \in 1..Len(seq) : seq[k] = "N" /\ seq[l] \in {"C", "G", "T"}
    /\ \E t, u \in 1..Len(seq) : res.out[t] = 0 /\ res.out[u] = 1

RECURSIVE C10_Beta(_, _, _, _)
C10_Beta(m, sq, scale, t) ==
    IF t = Len(sq) THEN <<One, One>>
    ELSE LET nx == C10_Beta(m, sq, scale, t + 1)
             o == AlphabetIndex[Canonical(sq)[t + 1]] + 1
         IN [i \in 1..2 |->
                Div(Add(Mul(Mul(m.A[i][1], m.B[1][o]), nx[1]),
                        Mul(Mul(m.A[i][2], m.B[2][o]), nx[2])),
                    scale[t + 1])]

\* p1 of C10: g1 / (g0 + g1), 0 when g0 + g1 = 0, g_i = alpha[i] * beta[i].
C10_P1(a, b) ==
    LET g0 == Mul(a[1], b[1])
        g1 == Mul(a[2], b[2])
    IN IF Eq(Add(g0, g1), PosZero) THEN PosZero ELSE Div(g1, Add(g0, g1))

\* C10: when no scale factor is zero, the forward tables of posterior_decode
\* are those of evaluate, its beta is the recurrence above over the forward
\* scale factors, and label[t] = 1 exactly when p1 >= threshold;
\* reconocimiento does this with threshold 0.5 and writes 'H' for 1 and 'L'
\* for 0.
C10_LabelIsThresholdedPosterior ==
    (AnyDecodeReturned /\ ZeroMass(this, seq) = {})
    => LET d == Decoded
           fw == evaluate(this, seq)
       IN /\ d.scales = fw.scales
          /\ d.alpha = fw.alpha
          /\ \A t \in 1..Len(seq) :
                LET b == C10_Beta(this, seq, d.scales, t)
                IN /\ Eq(d.beta[t][1], b[1]) /\ Eq(d.beta[t][2], b[2])
                   /\ d.out[t] \in {0, 1}
                   /\ d.out[t] = 1
                        <=> Geq(C10_P1(d.alpha[t], b), DecodeThreshold)
          /\ ReconocimientoReturned
             => \A t \in 1..Len(seq) :
                   res.result[t] = (IF d.out[t] = 1 THEN "H" ELSE "L")

\* C10 witness: posterior_decode returned both labels with threshold 0.5 on
\* a sequence without zero mass, one posterior being exactly the threshold.
C10_Witness ==
    /\ DecodeReturned /\ Len(seq) >= 2 /\ ZeroMass(this, seq) = {}
    /\ threshold = Q(1, 2)
    /\ \E t, u \in 1..Len(seq) : res.out[t] = 0 /\ res.out[u] = 1
    /\ \E t \in 1..Len(seq) : res.p1[t] = Q(1, 2)

====
